---- MODULE Spec2Model ----
(***************************************************************************)
(* Model of codes/models/audio/music/transformer_diffusion12.py: the       *)
(* TransformerDiffusion denoiser, its ConcatAttentionBlock layer and the   *)
(* wrapper variants that supply its conditioning codes.                    *)
(*                                                                         *)
(* Tensors are modelled by their shape, by a symbolic value (the inputs    *)
(* the value is computed from), by the set of parameter groups connected   *)
(* to them in the autograd graph, and, where a claim is about single       *)
(* elements, element by element.                                           *)
(***************************************************************************)
EXTENDS Integers, Sequences, FiniteSets, TLC

\* ---------------------------------------------------------------- bounds
\* largest batch size of an input
MaxBatch == 2
\* largest sequence length of an input or of a code sequence
MaxSeq == 3
\* largest training step passed to update_for_step
MaxStep == 4
\* largest channel count of a reference (truth_mel)
MaxMelChannels == 4
\* largest trunk_dim and contraction_dim of a ConcatAttentionBlock
MaxTrunkDim == 2
MaxContractionDim == 2

\* widths (feature / channel counts) the inputs are drawn from
Widths == {1, 2}
\* identities of the tensors the callers pass
XIds == {"x1", "x2"}
Timesteps == {"t1", "t2"}
CodeIds == {"c1", "c2"}
PreIds == {"p1"}
CondIds == {"k1"}
MelIds == {"m1", "m2"}
\* values of torch.rand, in hundredths
RandVals == {5, 50}

None == [kind |-> "None"]
IsNone(t) == t.kind = "None"

VARIABLES
    variant,        \* the class of the constructed model
    cfg,            \* the constructor arguments
    training,       \* nn.Module.training
    internal_step,  \* wrapper.internal_step
    temperature,    \* quantizer.quantizer.temperature, a rational <<num, den>>
    stepped,        \* update_for_step has run since construction
    last,           \* the last call: its arguments and what it did
    params,         \* each parameter group's requires_grad and DO_NOT_TRAIN
    block,          \* a ConcatAttentionBlock: its dimensions and out.weight
    block_last      \* the last forward of the block

vars == <<variant, cfg, training, internal_step, temperature, stepped, last,
          params, block, block_last>>
modelVars == <<variant, cfg, training, internal_step, temperature, stepped, last, params>>
blockVars == <<block, block_last>>

\* ------------------------------------------------------------- tensors
\* A 3-d tensor of symbolic elements, indexed [b][s][f]: element (b, s, f)
\* of the tensor id that module src computed ("code": the converters, which
\* attend over the whole sequence of one batch element; "pre": the caller).
Elems(src, id, B, S, W) ==
    [b \in 1..B |-> [s \in 1..S |-> [f \in 1..W |->
        [src |-> src, id |-> id, b |-> b, s |-> s, f |-> f]]]]

ShapeOf(e) ==
    <<Len(e), IF Len(e) = 0 THEN 0 ELSE Len(e[1]),
      IF Len(e) = 0 \/ Len(e[1]) = 0 THEN 0 ELSE Len(e[1][1])>>

\* A tensor argument: identity, shape (batch, sequence, width), graph.
Tensor(id, B, S, W, graph, zero_terms) ==
    [kind |-> "tensor", id |-> id, shape |-> <<B, S, W>>, graph |-> graph,
     zero_terms |-> zero_terms]

\* The identity of a tensor: the input it was computed from and the
\* module that computed it ("caller" for an argument).
Id(name, by) == [name |-> name, by |-> by, cond |-> "None"]

\* The element of the unconditioned embedding (1, 1, prenet_channels).
UncondElem(f) ==
    [src |-> "uncond", id |-> Id("unconditioned_embedding", "parameter"),
     b |-> 0, s |-> 0, f |-> f]

\* ------------------------------------------------- TransformerDiffusion
\* The parameter groups the constructor creates (lines 117-165).
DiffParameters(c) ==
    {"inp_block", "time_embed", "unconditioned_embedding", "intg", "layers", "out"}
        \cup (IF c.ar_prior THEN {"ar_input", "ar_prior_intg"}
                            ELSE {"input_converter", "code_converter"})

\* Faulty variant: the output position is taken for a position counted
\* from 0, and the index is clamped to the input.
NearestIndexFromZero(i, S, L) ==
    IF ((i * S) \div L) + 1 > S THEN S ELSE ((i * S) \div L) + 1

\* F.interpolate(mode='nearest'): output position i reads input position
\* floor((i-1) * S / L) + 1 (positions counted from 1).
NearestIndex(i, S, L) == (((i - 1) * S) \div L) + 1

\* Faulty variant: the code embedding is fused at its own length.
InterpolateSkipped(e, L) == e

Interpolate(e, L) ==
    [b \in 1..Len(e) |-> [i \in 1..L |-> e[b][NearestIndex(i, Len(e[b]), L)]]]

\* unconditioned_embedding.repeat(B, S, 1)
RepeatUncond(B, S, W) ==
    [b \in 1..B |-> [s \in 1..S |-> [f \in 1..W |-> UncondElem(f)]]]

\* Faulty variant: the mask is drawn for each sequence position.
UnconditionedPositions(rnd, B, S, c) ==
    [b \in 1..B |-> [s \in 1..S |->
        rnd[((b + s) % B) + 1] < c.unconditioned_percentage]]

\* torch.rand((B, 1, 1)) < unconditioned_percentage: one decision for each
\* batch element, broadcast over sequence and features by torch.where.
UnconditionedBatches(rnd, B, S, c) ==
    [b \in 1..B |-> [s \in 1..S |-> rnd[b] < c.unconditioned_percentage]]

Where(mask, a, e) ==
    [b \in 1..Len(e) |-> [s \in 1..Len(e[b]) |-> [f \in 1..Len(e[b][s]) |->
        IF mask[b][s] THEN a[b][1][f] ELSE e[b][s][f]]]]

Failed(status, trace) ==
    [status |-> status, trace |-> trace, emb |-> <<>>, graph |-> {}, masked |-> FALSE]

\* timestep_independent(prior, expected_seq_len), lines 187-199.
TimestepIndependent(c, train, prior, expected_seq_len, rnd) ==
    LET conv1 == IF c.ar_prior THEN "ar_input" ELSE "input_converter"
        conv2 == IF c.ar_prior THEN "ar_prior_intg" ELSE "code_converter"
    IN  IF IsNone(prior) THEN Failed("TypeError", <<>>)
        ELSE IF prior.shape[3] # c.input_vec_dim THEN Failed("RuntimeError", <<>>)
        ELSE
          LET B == prior.shape[1]
              S == prior.shape[2]
              code_emb == Elems("code", prior.id, B, S, c.prenet_channels)
              masking == train /\ c.unconditioned_percentage > 0
              masked == IF masking
                        THEN Where(UnconditionedBatches(rnd, B, S, c),
                                   RepeatUncond(B, 1, c.prenet_channels), code_emb)
                        ELSE code_emb
          IN  [status |-> "ok",
               trace |-> <<conv1, conv2>>,
               emb |-> Interpolate(masked, expected_seq_len),
               graph |-> prior.graph \cup {conv1, conv2}
                           \cup (IF masking THEN {"unconditioned_embedding"} ELSE {}),
               masked |-> masking]

\* Faulty variant: the assertion forgets conditioning_input.
ArgumentsAcceptedCodesOnly(codes, conditioning_input, precomputed) ==
    IsNone(precomputed) \/ IsNone(codes)

\* The check at the head of forward, lines 202-203.
ArgumentsAccepted(codes, conditioning_input, precomputed) ==
    IsNone(precomputed) \/ (IsNone(codes) /\ IsNone(conditioning_input))

\* Faulty variant: precomputed embeddings win over conditioning_free.
CodeEmbeddingPrecomputedFirst(c, conditioning_free, precomputed, ti, B, L) ==
    IF ~IsNone(precomputed)
    THEN Elems("pre", precomputed.id, precomputed.shape[1], precomputed.shape[2],
               precomputed.shape[3])
    ELSE IF conditioning_free THEN RepeatUncond(B, L, c.prenet_channels)
    ELSE ti.emb

\* The code embedding forward fuses with the projected input, lines 206-212.
CodeEmbedding(c, conditioning_free, precomputed, ti, B, L) ==
    IF conditioning_free THEN RepeatUncond(B, L, c.prenet_channels)
    ELSE IF ~IsNone(precomputed)
         THEN Elems("pre", precomputed.id, precomputed.shape[1], precomputed.shape[2],
                    precomputed.shape[3])
         ELSE ti.emb

\* The parameters forward adds to the output with weight zero, lines 205-213.
UnusedParams(conditioning_free) ==
    IF conditioning_free THEN {} ELSE {"unconditioned_embedding"}

Raised(status, trace) ==
    [status |-> status, trace |-> trace, code_emb |-> <<>>, masked |-> FALSE, out |-> None]

\* forward(x, timesteps, codes, conditioning_input, precomputed_code_embeddings,
\* conditioning_free), lines 201-233.  x has shape (batch, channels, length).
Forward(c, train, x, timesteps, codes, conditioning_input, precomputed, conditioning_free, rnd) ==
    IF ~ArgumentsAccepted(codes, conditioning_input, precomputed)
    THEN Raised("AssertionError", <<>>)
    ELSE
      LET B == x.shape[1]
          L == x.shape[3]
          ti == IF conditioning_free \/ ~IsNone(precomputed)
                THEN Failed("unused", <<>>)
                ELSE TimestepIndependent(c, train, codes, L, rnd)
          code_emb == CodeEmbedding(c, conditioning_free, precomputed, ti, B, L)
          code_graph == IF conditioning_free THEN {"unconditioned_embedding"}
                        ELSE IF ~IsNone(precomputed) THEN precomputed.graph
                        ELSE ti.graph
          t1 == IF conditioning_free \/ ~IsNone(precomputed) THEN <<>> ELSE ti.trace
      IN  IF ~conditioning_free /\ IsNone(precomputed) /\ ti.status # "ok"
          THEN Raised(ti.status, ti.trace)
          ELSE IF x.shape[2] # c.in_channels
          THEN Raised("RuntimeError", t1 \o <<"time_embed">>)
          ELSE IF ShapeOf(code_emb)[1] # B \/ ShapeOf(code_emb)[2] # L
          THEN Raised("RuntimeError", t1 \o <<"time_embed", "inp_block", "rotary_embeddings">>)
          ELSE IF c.prenet_channels + ShapeOf(code_emb)[3] # c.prenet_channels * 2
          THEN Raised("RuntimeError", t1 \o <<"time_embed", "inp_block", "rotary_embeddings">>)
          ELSE
            [status |-> "ok",
             trace |-> t1 \o <<"time_embed", "inp_block", "rotary_embeddings",
                               "intg", "layers", "out">>,
             code_emb |-> code_emb,
             masked |-> (~conditioning_free /\ IsNone(precomputed) /\ ti.masked),
             out |-> [kind |-> "tensor",
                      shape |-> <<B, c.out_channels, L>>,
                      val |-> [x |-> x.id, timesteps |-> timesteps, code_emb |-> code_emb],
                      graph |-> {"time_embed", "inp_block", "intg", "layers", "out"}
                                  \cup code_graph,
                      zero_terms |-> UnusedParams(conditioning_free)]]

\* ------------------------------------------------------------ wrappers
\* Temporal resolution of a code sequence: the codecs, the quantizer and the
\* prior produce codes at a coarser resolution than their input.
CodecLen(T) == (T + 1) \div 2

\* The quantizer's parameter groups, lines 300-301.
QuantizerParameters == {"quantizer.encoder", "quantizer.quantizer.codevectors"}

\* self.quantizer(truth_mel, return_decoder_latent=True) and the permute,
\* lines 262-263: the projection and the diversity loss.
Quantize(c, truth_mel, grad) ==
    IF truth_mel.shape[2] # c.in_channels
    THEN [status |-> "RuntimeError", proj |-> None, diversity_loss |-> None]
    ELSE [status |-> "ok",
          proj |-> Tensor(Id(truth_mel.id.name, "quantizer"), truth_mel.shape[1],
                          CodecLen(truth_mel.shape[3]), c.quantizer_dim,
                          IF grad THEN QuantizerParameters ELSE {}, {}),
          diversity_loss |-> [kind |-> "loss", of |-> truth_mel.id.name, weight |-> 1,
                              graph |-> IF grad THEN QuantizerParameters ELSE {}]]

\* Faulty variant: the quantizer thaws one step early.
QuantGradEnabledAtThreshold(c, step) == step >= c.freeze_quantizer_until

\* quant_grad_enabled, line 260.
QuantGradEnabled(c, step) == step > c.freeze_quantizer_until

\* The frozen branch, lines 266-271: proj + sum(p.mean() * 0), loss * 0.
UseForNothing(q) ==
    [q EXCEPT !.proj.graph = @ \cup QuantizerParameters,
              !.proj.zero_terms = QuantizerParameters,
              !.diversity_loss.weight = 0,
              !.diversity_loss.of = "zero"]

WrapperRaised(status, trace, grad) ==
    [status |-> status, trace |-> trace, code_emb |-> <<>>, masked |-> FALSE,
     out |-> None, codes |-> None, diversity_loss |-> None, returned |-> <<>>,
     quant_grad_enabled |-> grad, bands |-> <<>>]

\* What a wrapper's forward did: the diffusion network's result, the codes
\* handed to it and the values returned.
WrapperResult(diff, module, codes, diversity_loss, returned, grad, bands) ==
    [status |-> diff.status, trace |-> <<module>> \o diff.trace,
     code_emb |-> diff.code_emb, masked |-> diff.masked, out |-> diff.out,
     codes |-> codes, diversity_loss |-> diversity_loss,
     returned |-> IF diff.status = "ok" THEN returned ELSE <<>>,
     quant_grad_enabled |-> grad, bands |-> bands]

\* TransformerDiffusionWithQuantizer.forward, lines 259-276.
QuantizerForward(c, train, step, x, timesteps, truth_mel, conditioning_input, disable_diversity, conditioning_free, rnd) ==
    LET quant_grad_enabled == QuantGradEnabled(c, step)
        q0 == Quantize(c, truth_mel, quant_grad_enabled)
    IN  IF q0.status # "ok" THEN WrapperRaised(q0.status, <<>>, quant_grad_enabled)
        ELSE
          LET q == IF quant_grad_enabled THEN q0 ELSE UseForNothing(q0)
              diff == Forward(c, train, x, timesteps, q.proj, conditioning_input, None,
                              conditioning_free, rnd)
          IN  WrapperResult(diff, "quantizer", q.proj, q.diversity_loss,
                            IF disable_diversity THEN <<diff.out>>
                                                 ELSE <<diff.out, q.diversity_loss>>,
                            quant_grad_enabled, <<>>)

\* self.ar(truth_mel, conditioning_input, return_latent=True) under no_grad,
\* lines 355-356.
ArLatent(c, truth_mel, conditioning_input) ==
    Tensor([name |-> truth_mel.id.name, by |-> "ar",
            cond |-> IF IsNone(conditioning_input) THEN "None"
                     ELSE conditioning_input.id.name],
           truth_mel.shape[1], CodecLen(truth_mel.shape[3]), c.ar_dim, {}, {})

\* TransformerDiffusionWithARPrior.forward, lines 354-359.
ARPriorForward(c, train, x, timesteps, truth_mel, conditioning_input, conditioning_free, rnd) ==
    LET prior == ArLatent(c, truth_mel, conditioning_input)
        diff == Forward(c, train, x, timesteps, prior, None, None, conditioning_free, rnd)
    IN  WrapperResult(diff, "ar", prior, None, <<diff.out>>, FALSE, <<>>)

\* DiscreteVAE.infer(mel) and the permute: the codec's input convolution
\* takes exactly vq_channels channels.
CodecInfer(c, mel, B, channels, T) ==
    IF Len(channels) # c.vq_channels
    THEN [status |-> "RuntimeError", proj |-> None]
    ELSE [status |-> "ok",
          proj |-> Tensor(Id(mel.id.name, "vqvae"), B, CodecLen(T), c.codebook_dim, {}, {})]

\* The channels start..stop-1 (counted from 0) of a tensor with C channels,
\* as Python slices them: indices beyond the end are dropped.
Slice(C, start, stop) ==
    LET lo == IF start < C THEN start ELSE C
        hi == IF stop < C THEN stop ELSE C
    IN  [k \in 1..(IF hi > lo THEN hi - lo ELSE 0) |-> lo + k]

AllChannels(C) == Slice(C, 0, C)

\* TransformerDiffusionWithPretrainedVqvae.forward, lines 374-380.
VqvaeForward(c, train, x, timesteps, truth_mel, conditioning_input, conditioning_free, rnd) ==
    LET q == CodecInfer(c, truth_mel, truth_mel.shape[1], AllChannels(truth_mel.shape[2]),
                        truth_mel.shape[3])
    IN  IF q.status # "ok" THEN WrapperRaised(q.status, <<>>, FALSE)
        ELSE
          LET diff == Forward(c, train, x, timesteps, q.proj, conditioning_input, None,
                              conditioning_free, rnd)
          IN  WrapperResult(diff, "quantizer", q.proj, None, <<diff.out>>, FALSE, <<>>)

\* The loop of TransformerDiffusionWithMultiPretrainedVqvae.forward, lines
\* 436-440: codec i reads the channels [i*partition_size, (i+1)*partition_size).
PartitionSize(C, num_vaes) == C \div num_vaes

\* Faulty variant: the bands are handed to the codecs in reverse order.
MelPartitionReversed(C, num_vaes, i) ==
    Slice(C, (num_vaes - i) * PartitionSize(C, num_vaes),
          (num_vaes - i + 1) * PartitionSize(C, num_vaes))

MelPartition(C, num_vaes, i) ==
    Slice(C, (i - 1) * PartitionSize(C, num_vaes), i * PartitionSize(C, num_vaes))

\* torch.cat(proj, dim=-1), line 441: the slots of the concatenation in list
\* order; each slot names the codec that filled it and the channels it read.
CatProj(C, num_vaes) ==
    [i \in 1..num_vaes |-> [codec |-> i, channels |-> MelPartition(C, num_vaes, i)]]

\* TransformerDiffusionWithMultiPretrainedVqvae.forward, lines 433-444.
MultiVqvaeForward(c, train, x, timesteps, truth_mel, conditioning_input, conditioning_free, rnd) ==
    LET C == truth_mel.shape[2]
        bands == CatProj(C, c.num_vaes)
        infer == [i \in 1..c.num_vaes |->
                    CodecInfer(c, truth_mel, truth_mel.shape[1], bands[i].channels,
                               truth_mel.shape[3])]
    IN  IF \E i \in 1..c.num_vaes : infer[i].status # "ok"
        THEN WrapperRaised("RuntimeError", <<>>, FALSE)
        ELSE
          LET proj == Tensor(Id(truth_mel.id.name, "vqvae"), truth_mel.shape[1],
                             CodecLen(truth_mel.shape[3]), c.num_vaes * c.codebook_dim,
                             {}, {})
              diff == Forward(c, train, x, timesteps, proj, conditioning_input, None,
                              conditioning_free, rnd)
          IN  WrapperResult(diff, "quantizers", proj, None, <<diff.out>>, FALSE, bands)

\* TransformerDiffusion.forward called directly, in the wrappers' record.
DiffForward(c, train, x, timesteps, codes, conditioning_input, precomputed, conditioning_free, rnd) ==
    LET diff == Forward(c, train, x, timesteps, codes, conditioning_input, precomputed,
                        conditioning_free, rnd)
    IN  [status |-> diff.status, trace |-> diff.trace, code_emb |-> diff.code_emb,
         masked |-> diff.masked, out |-> diff.out, codes |-> codes,
         diversity_loss |-> None,
         returned |-> IF diff.status = "ok" THEN <<diff.out>> ELSE <<>>,
         quant_grad_enabled |-> FALSE, bands |-> <<>>]

\* ------------------------------------------------ temperature schedule
\* Temperatures are exact rationals <<numerator, denominator>>.
RatMul(p, q) == <<p[1] * q[1], p[2] * q[2]>>
RatLeq(p, q) == p[1] * q[2] <= q[1] * p[2]
RatEq(p, q) == p[1] * q[2] = q[1] * p[2]
RatMax(p, q) == IF RatLeq(p, q) THEN q ELSE p

RECURSIVE RatPow(_, _)
RatPow(p, n) == IF n = 0 THEN <<1, 1>> ELSE RatMul(p, RatPow(p, n - 1))

IntMax(a, b) == IF a >= b THEN a ELSE b

\* max_gumbel_temperature=4 and min_gumbel_temperature=.5, lines 246-247.
MaxGumbelTemperature == 4
MinGumbelTemperature == <<1, 2>>

\* Faulty variant: the decay counts from step 0 instead of from the freeze threshold.
QStepFromZero(c, step) == IntMax(0, step)

\* qstep, line 253.
QStep(c, step) == IntMax(0, step - c.freeze_quantizer_until)

\* The temperature update_for_step assigns, lines 254-257.
StepTemperature(c, step) ==
    RatMax(RatMul(<<MaxGumbelTemperature, 1>>, RatPow(c.gumbel_temperature_decay, QStep(c, step))),
           MinGumbelTemperature)

\* Faulty variant: the constructor leaves the quantizer at the head of
\* the schedule.
InitialTemperatureMax == <<MaxGumbelTemperature, 1>>

\* The temperature the constructor leaves, line 248.
InitialTemperature == MinGumbelTemperature

\* -------------------------------------------------------- construction
\* The constructor arguments of the model under check.  The widths are the
\* source's defaults scaled down; only their equalities matter to forward.
Kwargs(in_channels, out_channels, prenet_channels, input_vec_dim, unconditioned_percentage, ar_prior) ==
    [in_channels |-> in_channels, out_channels |-> out_channels,
     prenet_channels |-> prenet_channels, input_vec_dim |-> input_vec_dim,
     unconditioned_percentage |-> unconditioned_percentage, ar_prior |-> ar_prior,
     freeze_quantizer_until |-> 0, quantizer_dim |-> 0,
     gumbel_temperature_decay |-> <<1, 1>>,
     ar_dim |-> 0, num_vaes |-> 0, vq_channels |-> 0, codebook_dim |-> 0,
     freeze_diff |-> FALSE, freeze_except_code_converters |-> FALSE]

\* TransformerDiffusion(**kwargs), lines 85-177.
DiffKwargs ==
    {Kwargs(1, 2, 2, 1, 10, FALSE), Kwargs(2, 1, 1, 2, 0, FALSE),
     Kwargs(1, 1, 2, 2, 100, TRUE)}

\* TransformerDiffusionWithQuantizer(quantizer_dims, freeze_quantizer_until,
\* **kwargs), lines 237-249.
QuantizerKwargs ==
    {[Kwargs(1, 2, 2, 1, 10, FALSE) EXCEPT !.quantizer_dim = 1,
        !.freeze_quantizer_until = 2, !.gumbel_temperature_decay = <<1, 4>>],
     [Kwargs(2, 1, 1, 2, 0, FALSE) EXCEPT !.quantizer_dim = 2,
        !.freeze_quantizer_until = 0, !.gumbel_temperature_decay = <<1, 2>>]}

\* TransformerDiffusionWithARPrior(**kwargs), lines 322-332: ar_prior=True.
ARPriorKwargs ==
    {[Kwargs(1, 2, 2, 2, 40, TRUE) EXCEPT !.ar_dim = 2]}

\* TransformerDiffusionWithPretrainedVqvae(vqargs, **kwargs), lines 363-372.
VqvaeKwargs ==
    {[Kwargs(1, 2, 2, 1, 10, FALSE) EXCEPT !.vq_channels = 2, !.codebook_dim = 1]}

\* TransformerDiffusionWithMultiPretrainedVqvae(num_vaes, vqargs, **kwargs),
\* lines 423-431.
MultiVqvaeKwargs ==
    {[Kwargs(1, 2, 2, 2, 10, FALSE) EXCEPT !.num_vaes = 2, !.vq_channels = 1,
        !.codebook_dim = 1],
     [Kwargs(1, 2, 2, 2, 0, FALSE) EXCEPT !.num_vaes = 2, !.vq_channels = 2,
        !.codebook_dim = 1],
     [Kwargs(2, 1, 1, 3, 10, FALSE) EXCEPT !.num_vaes = 3, !.vq_channels = 1,
        !.codebook_dim = 1]}

Variants ==
    {"TransformerDiffusion", "TransformerDiffusionWithQuantizer",
     "TransformerDiffusionWithARPrior", "TransformerDiffusionWithPretrainedVqvae",
     "TransformerDiffusionWithMultiPretrainedVqvae"}

KwargsOf(v) ==
    CASE v = "TransformerDiffusion" -> DiffKwargs
      [] v = "TransformerDiffusionWithQuantizer" -> QuantizerKwargs
      [] v = "TransformerDiffusionWithARPrior" -> ARPriorKwargs
      [] v = "TransformerDiffusionWithPretrainedVqvae" -> VqvaeKwargs
      [] v = "TransformerDiffusionWithMultiPretrainedVqvae" -> MultiVqvaeKwargs

\* --------------------------------------------------- parameter freezing
\* A parameter group as the optimizer sees it: requires_grad and whether
\* the DO_NOT_TRAIN attribute is set.  nn.Module creates them trainable.
Fresh(P) == [p \in P |-> [requires_grad |-> TRUE, DO_NOT_TRAIN |-> FALSE]]

\* p.DO_NOT_TRAIN = True; p.requires_grad = False, for the parameters of P.
Freeze(ps, P) ==
    [p \in DOMAIN ps |->
        IF p \in P THEN [requires_grad |-> FALSE, DO_NOT_TRAIN |-> TRUE] ELSE ps[p]]

\* del p.DO_NOT_TRAIN; p.requires_grad = True, for the parameters of P.
Unfreeze(ps, P) ==
    [p \in DOMAIN ps |->
        IF p \in P THEN [requires_grad |-> TRUE, DO_NOT_TRAIN |-> FALSE] ELSE ps[p]]

\* The attributes TransformerDiffusion.__init__ assigns, lines 117-164.
DiffAttributes(c) ==
    {"inp_block", "time_embed", "unconditioned_embedding", "rotary_embeddings",
     "intg", "layers", "out"}
        \cup (IF c.ar_prior THEN {"ar_input", "ar_prior_intg"}
                            ELSE {"input_converter", "code_converter"})

\* Python's `a and b` of two modules: a module is truthy, so the value is b.
And(a, b) == b

\* The list line 171 iterates over: [self.input_converter and
\* self.code_converter], a list of one module.
CodeConverterModules == {And("input_converter", "code_converter")}

\* TransformerDiffusion.__init__, the freezing of lines 167-174.  Reading
\* self.input_converter of a model built with ar_prior=True raises.
DiffConstruct(c) ==
    LET fresh == Fresh(DiffParameters(c))
    IN  IF ~c.freeze_except_code_converters
        THEN [status |-> "ok", params |-> fresh]
        ELSE IF "input_converter" \notin DiffAttributes(c)
        THEN [status |-> "AttributeError", params |-> fresh]
        ELSE [status |-> "ok",
              params |-> Unfreeze(Freeze(fresh, DOMAIN fresh), CodeConverterModules)]

\* Faulty variant: the input projection of the prior is left frozen.
FreezeDiffUnfrozenIntgOnly == {"ar_prior_intg"}

\* The modules of self.diff that freeze_diff leaves trainable, line 337.
FreezeDiffUnfrozen == {"ar_prior_intg", "ar_input"}

\* The parameters a wrapper owns next to those of self.diff, as its
\* constructor leaves them: the quantizer trainable (line 244), the prior
\* (lines 328-330) and the codecs (lines 370-372, 429-431) frozen.
WrapperParameters(v) ==
    CASE v = "TransformerDiffusion" -> Fresh({})
      [] v = "TransformerDiffusionWithQuantizer" -> Fresh(QuantizerParameters)
      [] v = "TransformerDiffusionWithARPrior" -> Freeze(Fresh({"ar"}), {"ar"})
      [] v = "TransformerDiffusionWithPretrainedVqvae"
            -> Freeze(Fresh({"quantizer"}), {"quantizer"})
      [] v = "TransformerDiffusionWithMultiPretrainedVqvae"
            -> Freeze(Fresh({"quantizers"}), {"quantizers"})

\* The constructor of variant v: the parameters of self.diff under their
\* names in TransformerDiffusion, the wrapper's own under theirs.
Construct(v, c) ==
    LET diff == DiffConstruct(c)
        frozen == Unfreeze(Freeze(diff.params, DOMAIN diff.params), FreezeDiffUnfrozen)
    IN  [status |-> diff.status,
         params |-> WrapperParameters(v)
                      @@ (IF v = "TransformerDiffusionWithARPrior" /\ c.freeze_diff
                          THEN frozen ELSE diff.params)]

\* The parameters of a ConcatAttentionBlock, lines 67-70.
BlockParameters == {"prenorm", "block1", "block2", "out"}

\* The parameters an optimizer updates.
Trainable(ps) == {p \in DOMAIN ps : ps[p].requires_grad /\ ~ps[p].DO_NOT_TRAIN}

\* ---------------------------------------- get_grad_norm_parameter_groups
\* Attribute paths: <<"diff", "layers", "block1", "attn">> is the attn of
\* the block1 of a layer of self.diff.
SubBlockAttributes == {"attn", "attnorm", "ff", "ffnorm"}

\* The attributes of a layer, a ConcatAttentionBlock, lines 67-70.
LayerPaths ==
    {<<a>> : a \in BlockParameters}
        \cup {<<b, a>> : b \in {"block1", "block2"}, a \in SubBlockAttributes}

DiffPaths(c) ==
    {<<a>> : a \in DiffAttributes(c)} \cup {<<"layers">> \o p : p \in LayerPaths}

\* The attribute paths that exist on a constructed model of variant v.
ModulePaths(v, c) ==
    CASE v = "TransformerDiffusion" -> DiffPaths(c)
      [] v = "TransformerDiffusionWithQuantizer"
            -> {<<"diff">> \o p : p \in DiffPaths(c)}
                 \cup {<<"quantizer", "encoder">>,
                       <<"quantizer", "quantizer", "codevectors">>}
      [] v = "TransformerDiffusionWithARPrior"
            -> {<<"diff">> \o p : p \in DiffPaths(c)} \cup {<<"ar">>}
      [] v = "TransformerDiffusionWithPretrainedVqvae"
            -> {<<"diff">> \o p : p \in DiffPaths(c)} \cup {<<"quantizer">>}
      [] v = "TransformerDiffusionWithMultiPretrainedVqvae"
            -> {<<"diff">> \o p : p \in DiffPaths(c)} \cup {<<"quantizers">>}

\* The reads of the layers' sub-modules that open the wrappers' dicts,
\* lines 286-292, 389-395, 456-462.
LayerReads ==
    <<<<"diff", "layers", "block1", "attn">>, <<"diff", "layers", "block2", "attn">>,
      <<"diff", "layers", "block1", "ff">>, <<"diff", "layers", "block2", "ff">>,
      <<"diff", "layers", "out">>, <<"diff", "layers", "prenorm">>>>

\* The reads that close them.
TrunkReads ==
    <<<<"diff", "rotary_embeddings">>, <<"diff", "out">>, <<"diff", "inp_block">>,
      <<"diff", "layers">>>>

ConverterReads == <<<<"diff", "input_converter">>, <<"diff", "code_converter">>>>

\* The attributes get_grad_norm_parameter_groups of variant v reads, in the
\* order Python evaluates them.
GroupReads(v) ==
    CASE v = "TransformerDiffusion"
            -> <<<<"layers">>, <<"inp_block">>, <<"input_converter">>,
                 <<"code_converter">>, <<"time_embed">>>>
      [] v = "TransformerDiffusionWithQuantizer"
            -> LayerReads
                 \o <<<<"quantizer", "encoder">>,
                      <<"quantizer", "quantizer", "codevectors">>>>
                 \o TrunkReads \o ConverterReads \o <<<<"diff", "time_embed">>>>
      [] v = "TransformerDiffusionWithARPrior"
            -> <<<<"diff", "layers", "attn">>, <<"diff", "layers", "ff">>>>
                 \o TrunkReads
                 \o <<<<"diff", "ar_prior_intg">>, <<"diff", "time_embed">>>>
      [] v = "TransformerDiffusionWithPretrainedVqvae"
            -> LayerReads \o TrunkReads \o <<<<"diff", "time_embed">>>>
      [] v = "TransformerDiffusionWithMultiPretrainedVqvae"
            -> LayerReads \o TrunkReads \o ConverterReads
                 \o <<<<"diff", "time_embed">>>>

\* get_grad_norm_parameter_groups: the first read of an attribute the model
\* lacks raises AttributeError; otherwise the dict is returned.
GradNormParameterGroups(v, c) ==
    LET reads == GroupReads(v)
        missing == {i \in 1..Len(reads) : reads[i] \notin ModulePaths(v, c)}
        first == CHOOSE i \in missing : \A j \in missing : i <= j
    IN  IF missing = {}
        THEN [status |-> "ok", attribute |-> <<>>, reads |-> Len(reads)]
        ELSE [status |-> "AttributeError", attribute |-> reads[first],
              reads |-> first - 1]

NoCall == [op |-> "none"]
NoBlock == [trunk_dim |-> 0, contraction_dim |-> 0, out_weight |-> <<>>, updated |-> FALSE]
Idle == last.op = "none"

\* The state after construction: a new module is in training mode.
Init ==
    /\ variant \in Variants
    /\ cfg \in KwargsOf(variant)
    /\ training = TRUE
    /\ internal_step = 0
    /\ temperature = InitialTemperature
    /\ stepped = FALSE
    /\ last = NoCall
    /\ params = Construct(variant, cfg).params
    /\ block = NoBlock
    /\ block_last = NoCall

\* ------------------------------------------------------------- inputs
\* The noisy inputs x, of shape (batch, in_channels, length).
XInputs ==
    {Tensor(Id(i, "caller"), B, cfg.in_channels, L, {}, {}) :
        i \in XIds, B \in 1..MaxBatch, L \in 1..MaxSeq}

\* Raw codes or priors of shape (batch, length, width) for a batch of B.
CodeInputs(B) ==
    {Tensor(Id(i, "caller"), B, S, W, {}, {}) :
        i \in CodeIds, S \in 1..MaxSeq, W \in Widths}

\* Precomputed code embeddings, as a caller may pass them.
PrecomputedInputs(B) ==
    {Tensor(Id(i, "caller"), B, S, W, {}, {}) :
        i \in PreIds, S \in 1..MaxSeq, W \in Widths}

CondInputs == {Tensor(Id(i, "caller"), 1, 1, 1, {}, {}) : i \in CondIds}

\* References (truth_mel) of shape (batch, channels, length); the channel
\* counts matter to the multi-codec wrapper, which partitions them.
MelChannels ==
    IF variant = "TransformerDiffusionWithMultiPretrainedVqvae"
    THEN 1..MaxMelChannels ELSE Widths

MelInputs(B) ==
    {Tensor(Id(i, "caller"), B, C, T, {}, {}) :
        i \in MelIds, C \in MelChannels, T \in 1..MaxSeq}

Optional(S) == {None} \cup S

\* The values torch.rand returns when timestep_independent draws the mask
\* (one for each batch element); nothing is drawn on the other paths.
RandDraws(c, train, B, conditioning_free, draws) ==
    IF train /\ c.unconditioned_percentage > 0 /\ ~conditioning_free /\ draws
    THEN [1..B -> RandVals]
    ELSE {[b \in 1..B |-> 0]}

Call(x, timesteps, codes, conditioning_input, precomputed, truth_mel, disable_diversity, conditioning_free, rnd, res) ==
    [op |-> "forward", training |-> training, step |-> internal_step, x |-> x,
     timesteps |-> timesteps, codes |-> codes,
     conditioning_input |-> conditioning_input, precomputed |-> precomputed,
     truth_mel |-> truth_mel, disable_diversity |-> disable_diversity,
     conditioning_free |-> conditioning_free, rnd |-> rnd, res |-> res]

\* ------------------------------------------------------------ actions
\* model.train() / model.eval()
Train ==
    /\ Idle /\ ~training
    /\ training' = TRUE
    /\ UNCHANGED <<variant, cfg, internal_step, temperature, stepped, last>>
    /\ UNCHANGED <<params, blockVars>>

Eval ==
    /\ Idle /\ training
    /\ training' = FALSE
    /\ UNCHANGED <<variant, cfg, internal_step, temperature, stepped, last>>
    /\ UNCHANGED <<params, blockVars>>

\* TransformerDiffusionWithQuantizer.update_for_step(step), lines 251-257.
UpdateForStep ==
    /\ Idle /\ variant = "TransformerDiffusionWithQuantizer"
    /\ \E step \in 0..MaxStep :
         /\ internal_step' = step
         /\ temperature' = StepTemperature(cfg, step)
    /\ stepped' = TRUE
    /\ UNCHANGED <<variant, cfg, training, last>>
    /\ UNCHANGED <<params, blockVars>>

\* TransformerDiffusion.forward
ForwardCall ==
    /\ Idle /\ variant = "TransformerDiffusion"
    /\ \E x \in XInputs, timesteps \in Timesteps, conditioning_free \in BOOLEAN,
          conditioning_input \in Optional(CondInputs) :
         \E codes \in Optional(CodeInputs(x.shape[1])),
            precomputed \in Optional(PrecomputedInputs(x.shape[1])) :
           \E rnd \in RandDraws(cfg, training, x.shape[1], conditioning_free,
                                IsNone(precomputed) /\ ~IsNone(codes)) :
             last' = Call(x, timesteps, codes, conditioning_input, precomputed, None,
                          FALSE, conditioning_free, rnd,
                          DiffForward(cfg, training, x, timesteps, codes,
                                      conditioning_input, precomputed,
                                      conditioning_free, rnd))
    /\ UNCHANGED <<variant, cfg, training, internal_step, temperature, stepped>>
    /\ UNCHANGED <<params, blockVars>>

\* TransformerDiffusionWithQuantizer.forward
QuantizerForwardCall ==
    /\ Idle /\ variant = "TransformerDiffusionWithQuantizer"
    /\ \E x \in XInputs, timesteps \in Timesteps, conditioning_free \in BOOLEAN,
          conditioning_input \in Optional(CondInputs), disable_diversity \in BOOLEAN :
         \E truth_mel \in MelInputs(x.shape[1]),
            rnd \in RandDraws(cfg, training, x.shape[1], conditioning_free, TRUE) :
             last' = Call(x, timesteps, None, conditioning_input, None, truth_mel,
                          disable_diversity, conditioning_free, rnd,
                          QuantizerForward(cfg, training, internal_step, x, timesteps,
                                           truth_mel, conditioning_input,
                                           disable_diversity, conditioning_free, rnd))
    /\ UNCHANGED <<variant, cfg, training, internal_step, temperature, stepped>>
    /\ UNCHANGED <<params, blockVars>>

\* The forward of the three wrappers around frozen code sources.
FrozenSourceForward(c, train, x, timesteps, truth_mel, conditioning_input, conditioning_free, rnd) ==
    CASE variant = "TransformerDiffusionWithARPrior" ->
           ARPriorForward(c, train, x, timesteps, truth_mel, conditioning_input,
                          conditioning_free, rnd)
      [] variant = "TransformerDiffusionWithPretrainedVqvae" ->
           VqvaeForward(c, train, x, timesteps, truth_mel, conditioning_input,
                        conditioning_free, rnd)
      [] variant = "TransformerDiffusionWithMultiPretrainedVqvae" ->
           MultiVqvaeForward(c, train, x, timesteps, truth_mel, conditioning_input,
                             conditioning_free, rnd)

FrozenSourceForwardCall(v) ==
    /\ Idle /\ variant = v
    /\ \E x \in XInputs, timesteps \in Timesteps, conditioning_free \in BOOLEAN,
          conditioning_input \in Optional(CondInputs) :
         \E truth_mel \in MelInputs(x.shape[1]),
            rnd \in RandDraws(cfg, training, x.shape[1], conditioning_free, TRUE) :
             last' = Call(x, timesteps, None, conditioning_input, None, truth_mel,
                          FALSE, conditioning_free, rnd,
                          FrozenSourceForward(cfg, training, x, timesteps, truth_mel,
                                              conditioning_input, conditioning_free, rnd))
    /\ UNCHANGED <<variant, cfg, training, internal_step, temperature, stepped>>
    /\ UNCHANGED <<params, blockVars>>

ARPriorForwardCall == FrozenSourceForwardCall("TransformerDiffusionWithARPrior")
VqvaeForwardCall == FrozenSourceForwardCall("TransformerDiffusionWithPretrainedVqvae")
MultiVqvaeForwardCall == FrozenSourceForwardCall("TransformerDiffusionWithMultiPretrainedVqvae")

\* The caller takes the result of forward; the next call starts after it.
Return ==
    /\ ~Idle
    /\ last' = NoCall
    /\ UNCHANGED <<variant, cfg, training, internal_step, temperature, stepped>>
    /\ UNCHANGED <<params, blockVars>>

Next ==
    \/ Train
    \/ Eval
    \/ UpdateForStep
    \/ ForwardCall
    \/ QuantizerForwardCall
    \/ ARPriorForwardCall
    \/ VqvaeForwardCall
    \/ MultiVqvaeForwardCall
    \/ Return

Spec == Init /\ [][Next]_vars

\* ------------------------------------------- construction and its groups
\* The constructor arguments with the flags that freeze parameters.  Only
\* the AR-prior wrapper takes freeze_diff, and it sets ar_prior itself.
ConstructKwargs(v) ==
    {k \in {[b EXCEPT !.in_channels = i, !.ar_prior = ar, !.freeze_diff = fd,
                      !.freeze_except_code_converters = fe] :
                b \in KwargsOf(v), i \in Widths, ar \in BOOLEAN, fd \in BOOLEAN,
                fe \in BOOLEAN} :
        /\ k.freeze_diff => v = "TransformerDiffusionWithARPrior"
        /\ v = "TransformerDiffusionWithARPrior" => k.ar_prior}

\* The state after a construction that did not raise.
ConstructInit ==
    /\ variant \in Variants
    /\ cfg \in ConstructKwargs(variant)
    /\ Construct(variant, cfg).status = "ok"
    /\ training = TRUE
    /\ internal_step = 0
    /\ temperature = InitialTemperature
    /\ stepped = FALSE
    /\ last = NoCall
    /\ params = Construct(variant, cfg).params
    /\ block = NoBlock
    /\ block_last = NoCall

\* model.get_grad_norm_parameter_groups()
GetGradNormParameterGroups ==
    /\ Idle
    /\ last' = [op |-> "get_grad_norm_parameter_groups", training |-> training,
                res |-> GradNormParameterGroups(variant, cfg)]
    /\ UNCHANGED <<variant, cfg, training, internal_step, temperature, stepped>>
    /\ UNCHANGED <<params, blockVars>>

ConstructNext ==
    \/ Train
    \/ Eval
    \/ GetGradNormParameterGroups
    \/ Return

SpecConstruct == ConstructInit /\ [][ConstructNext]_vars

\* ------------------------------------------------- ConcatAttentionBlock
\* The features of one position of a block's tensors are symbolic: the
\* group that computed the feature and its index in the group.
Group(name, n) == [k \in 1..n |-> [grp |-> name, k |-> k]]

\* SubBlock.forward, lines 54-61: cat([ah, x]) and then cat([h, hf]).
SubBlockForward(attn, ff, x, contraction_dim) ==
    LET ah == Group(attn, contraction_dim)
        h == ah \o x
        hf == Group(ff, contraction_dim)
    IN  h \o hf

\* Faulty variant: nn.Linear's default initialisation, without weight.data.zero_().
OutDefaultWeight(trunk_dim, contraction_dim) ==
    [j \in 1..trunk_dim |-> [k \in 1..(contraction_dim * 4) |-> 1]]

\* self.out = nn.Linear(contraction_dim*4, trunk_dim, bias=False) with
\* weight zeroed, lines 70-71: entry [j][k] is 0 or 1 (not zero).
OutInitWeight(trunk_dim, contraction_dim) ==
    [j \in 1..trunk_dim |-> [k \in 1..(contraction_dim * 4) |-> 0]]

\* A bias-free linear layer on symbolic features: output j is the sum of
\* the input features that have a weight other than zero.
LinearNoBias(weight, h) ==
    IF weight # <<>> /\ Len(h) # Len(weight[1])
    THEN [status |-> "RuntimeError", features |-> <<>>]
    ELSE [status |-> "ok",
          features |-> [j \in 1..Len(weight) |->
                          {h[k] : k \in {n \in 1..Len(h) : weight[j][n] # 0}}]]

\* ConcatAttentionBlock.forward, lines 73-78, on x of shape
\* (batch, length, trunk_dim).
BlockForward(blk, x) ==
    LET trunk == x.shape[3]
        h0 == Group("prenorm", trunk)
        h1 == SubBlockForward("block1.attn", "block1.ff", h0, blk.contraction_dim)
        h2 == SubBlockForward("block2.attn", "block2.ff", h1, blk.contraction_dim)
        sliced == SubSeq(h2, trunk + 1, Len(h2))
        out == LinearNoBias(blk.out_weight, sliced)
    IN  IF out.status # "ok" \/ Len(out.features) # trunk
        THEN [status |-> "RuntimeError", shape |-> <<>>, features |-> <<>>,
              projected |-> sliced]
        ELSE [status |-> "ok",
              shape |-> x.shape,
              features |-> [j \in 1..trunk |->
                              [residual |-> [grp |-> x.id.name, k |-> j],
                               terms |-> out.features[j]]],
              projected |-> sliced]

\* The weights an update of the parameters may leave in out.weight: the
\* rows that received a gradient are not zero in every column, or in one.
UpdatedWeights(blk) ==
    {[j \in 1..blk.trunk_dim |-> [k \in 1..(blk.contraction_dim * 4) |->
        IF j \in rows /\ (col = 0 \/ col = k) THEN 1 ELSE 0]] :
        rows \in SUBSET (1..blk.trunk_dim), col \in 0..(blk.contraction_dim * 4)}

BlockInputs ==
    {Tensor(Id(i, "caller"), B, S, block.trunk_dim, {}, {}) :
        i \in XIds, B \in 1..MaxBatch, S \in 1..MaxSeq}

\* ConcatAttentionBlock(trunk_dim, contraction_dim, ...), lines 65-71.
BlockInit ==
    /\ variant = "ConcatAttentionBlock"
    /\ cfg = Kwargs(1, 1, 1, 1, 0, FALSE)
    /\ training = TRUE
    /\ internal_step = 0
    /\ temperature = InitialTemperature
    /\ stepped = FALSE
    /\ last = NoCall
    /\ params = Fresh(BlockParameters)
    /\ \E trunk_dim \in 1..MaxTrunkDim, contraction_dim \in 1..MaxContractionDim :
         block = [trunk_dim |-> trunk_dim, contraction_dim |-> contraction_dim,
                  out_weight |-> OutInitWeight(trunk_dim, contraction_dim),
                  updated |-> FALSE]
    /\ block_last = NoCall

\* A training step updates the block's parameters.
OptimizerStep ==
    /\ block_last.op = "none"
    /\ \E w \in UpdatedWeights(block) :
         block' = [block EXCEPT !.out_weight = w, !.updated = TRUE]
    /\ UNCHANGED modelVars
    /\ UNCHANGED block_last

\* ConcatAttentionBlock.forward(x, timestep_emb, rotary_emb)
BlockForwardCall ==
    /\ block_last.op = "none"
    /\ \E x \in BlockInputs :
         block_last' = [op |-> "forward", x |-> x, updated |-> block.updated,
                        res |-> BlockForward(block, x)]
    /\ UNCHANGED modelVars
    /\ UNCHANGED block

BlockReturn ==
    /\ block_last.op # "none"
    /\ block_last' = NoCall
    /\ UNCHANGED modelVars
    /\ UNCHANGED block

BlockNext ==
    \/ OptimizerStep
    \/ BlockForwardCall
    \/ BlockReturn

SpecBlock == BlockInit /\ [][BlockNext]_vars

\* ================================================================ claims
Called == last.op = "forward"
Direct == variant = "TransformerDiffusion"

\* C1: forward called with precomputed_code_embeddings together with codes
\* or conditioning_input fails with an assertion error before anything is
\* evaluated, and leaves the model's state as it was.
C1_FailsFast ==
    [][(last'.op = "forward" /\ last.op = "none" /\ ~IsNone(last'.precomputed)
          /\ (~IsNone(last'.codes) \/ ~IsNone(last'.conditioning_input)))
        => (/\ last'.res.status = "AssertionError"
            /\ last'.res.trace = <<>>
            /\ IsNone(last'.res.out)
            /\ UNCHANGED <<variant, cfg, training, internal_step, temperature, stepped, params>>)]_vars

C1_Witness ==
    /\ Called /\ Direct
    /\ ~IsNone(last.precomputed) /\ IsNone(last.codes) /\ ~IsNone(last.conditioning_input)
    /\ last.res.status = "AssertionError"

\* The parameters an optimizer trains: every parameter of the diffusion
\* network, and the quantizer's in TransformerDiffusionWithQuantizer (the
\* prior and the codecs of the other wrappers are frozen).
TrainableParameters ==
    DiffParameters(cfg)
        \cup (IF variant = "TransformerDiffusionWithQuantizer"
              THEN QuantizerParameters ELSE {})

\* The parameters connected to what a call returned, by the computation or
\* by a zero-weighted term.
ReachedParameters(res) ==
    UNION {IF IsNone(r) THEN {}
           ELSE IF r.kind = "loss" THEN r.graph
           ELSE r.graph \cup r.zero_terms : r \in {res.returned[k] : k \in DOMAIN res.returned}}

\* C2: every forward pass includes in what it returns a term derived from
\* every trainable parameter, on the active path or zero-weighted.
C2_EveryParameterReached ==
    (Called /\ last.res.status = "ok") => TrainableParameters \subseteq ReachedParameters(last.res)

\* The last call made again with conditioning_free=True and another
\* reference: other codes, conditioning input and precomputed embeddings for
\* the diffusion network, another truth_mel and conditioning input for a
\* wrapper.
Again(codes, conditioning_input, precomputed, truth_mel) ==
    CASE Direct ->
           DiffForward(cfg, last.training, last.x, last.timesteps, codes,
                       conditioning_input, precomputed, TRUE, last.rnd)
      [] variant = "TransformerDiffusionWithQuantizer" ->
           QuantizerForward(cfg, last.training, last.step, last.x, last.timesteps,
                            truth_mel, conditioning_input, last.disable_diversity,
                            TRUE, last.rnd)
      [] OTHER ->
           FrozenSourceForward(cfg, last.training, last.x, last.timesteps, truth_mel,
                               conditioning_input, TRUE, last.rnd)

References ==
    IF Direct
    THEN {<<codes, k, pre, None>> :
            codes \in Optional(CodeInputs(last.x.shape[1])),
            k \in Optional(CondInputs),
            pre \in Optional(PrecomputedInputs(last.x.shape[1]))}
    ELSE {<<None, k, None, m>> :
            k \in Optional(CondInputs), m \in MelInputs(last.x.shape[1])}

\* C3 as stated: with conditioning_free=True, two calls that agree on the
\* parameters, x and the timesteps and both return, return the same values.
C3_ReturnsIndependent ==
    (Called /\ last.conditioning_free /\ last.res.status = "ok")
        => \A r \in References :
             LET other == Again(r[1], r[2], r[3], r[4])
             IN  other.status = "ok" => other.returned = last.res.returned

\* What the diffusion network computes from x and the timesteps alone.
Unconditioned ==
    Forward(cfg, last.training, last.x, last.timesteps, None, None, None, TRUE, last.rnd)

\* C3 amended: with conditioning_free=True the denoising tensor a call
\* returns is the one computed from x, the timesteps and the unconditioned
\* embedding alone; the diversity loss TransformerDiffusionWithQuantizer
\* returns beside it is zero-weighted while the quantizer is frozen, and is
\* computed from truth_mel once it is not.
C3_DenoisingIndependent ==
    (Called /\ last.conditioning_free /\ last.res.status = "ok")
        => /\ last.res.returned[1] = Unconditioned.out
           /\ last.res.out = Unconditioned.out
           /\ Len(last.res.returned) = 2 =>
                /\ variant = "TransformerDiffusionWithQuantizer"
                /\ ~last.disable_diversity
                /\ last.res.returned[2].of =
                     (IF last.res.quant_grad_enabled THEN last.truth_mel.id.name
                                                     ELSE "zero")

C3_Witness ==
    /\ Called /\ variant = "TransformerDiffusionWithQuantizer"
    /\ last.conditioning_free /\ last.res.status = "ok"
    /\ Len(last.res.returned) = 2
    /\ last.res.returned[2].of = "m2"
    /\ last.x.shape[3] > 1

\* C4: after update_for_step(step) the temperature is the configured max
\* up to the freeze threshold and max * decay^(step - threshold), clamped
\* below at the configured min, after it: never below min, and no higher
\* than after any earlier step.
C4_TemperatureSchedule ==
    stepped =>
        /\ internal_step <= cfg.freeze_quantizer_until
              => RatEq(temperature, <<MaxGumbelTemperature, 1>>)
        /\ internal_step > cfg.freeze_quantizer_until
              => LET decayed == RatMul(<<MaxGumbelTemperature, 1>>,
                                       RatPow(cfg.gumbel_temperature_decay,
                                              internal_step - cfg.freeze_quantizer_until))
                 IN  IF RatLeq(decayed, MinGumbelTemperature)
                     THEN RatEq(temperature, MinGumbelTemperature)
                     ELSE RatEq(temperature, decayed)
        /\ RatLeq(MinGumbelTemperature, temperature)
        /\ \A earlier \in 0..internal_step :
              RatLeq(temperature, StepTemperature(cfg, earlier))

C4_Witness ==
    /\ stepped
    /\ internal_step > cfg.freeze_quantizer_until + 1
    /\ RatEq(temperature, MinGumbelTemperature)
    /\ ~RatLeq(MinGumbelTemperature,
               RatMul(<<MaxGumbelTemperature, 1>>,
                      RatPow(cfg.gumbel_temperature_decay,
                             internal_step - cfg.freeze_quantizer_until)))

\* C5: the quantizer runs with gradients exactly when internal_step is past
\* freeze_quantizer_until; while it is frozen the diversity loss is
\* zero-weighted and the codes passed to the diffusion network carry a
\* zero-weighted term over every quantizer parameter.
C5_FrozenQuantizer ==
    (Called /\ variant = "TransformerDiffusionWithQuantizer")
        => /\ last.res.quant_grad_enabled <=> (last.step > cfg.freeze_quantizer_until)
           /\ (~IsNone(last.res.codes) /\ last.step <= cfg.freeze_quantizer_until)
                => /\ last.res.diversity_loss.weight = 0
                   /\ QuantizerParameters \subseteq last.res.codes.zero_terms
                   /\ QuantizerParameters \subseteq last.res.codes.graph
           /\ (~IsNone(last.res.codes) /\ last.step > cfg.freeze_quantizer_until)
                => /\ last.res.diversity_loss.weight = 1
                   /\ last.res.codes.zero_terms = {}
                   /\ QuantizerParameters \subseteq last.res.codes.graph
           /\ (last.res.status = "ok") => ~IsNone(last.res.codes)

C5_Witness ==
    /\ Called /\ variant = "TransformerDiffusionWithQuantizer"
    /\ ~stepped /\ last.step = 0 /\ cfg.freeze_quantizer_until = 0
    /\ last.res.status = "ok" /\ ~last.conditioning_free
    /\ ~last.res.quant_grad_enabled
    /\ last.res.codes.zero_terms = QuantizerParameters

\* The conditioning arguments forward can fuse with x: none when
\* conditioning_free, precomputed embeddings of x's batch and length and of
\* width prenet_channels, or codes of x's batch and of width input_vec_dim.
ValidConditioning ==
    /\ ArgumentsAccepted(last.codes, last.conditioning_input, last.precomputed)
    /\ \/ last.conditioning_free
       \/ /\ ~IsNone(last.precomputed)
          /\ last.precomputed.shape
               = <<last.x.shape[1], last.x.shape[3], cfg.prenet_channels>>
       \/ /\ IsNone(last.precomputed) /\ ~IsNone(last.codes)
          /\ last.codes.shape[1] = last.x.shape[1]
          /\ last.codes.shape[3] = cfg.input_vec_dim

\* C6: for x of shape (batch, in_channels, L) forward returns a tensor of
\* shape (batch, out_channels, L) on each conditioning path, and the code
\* embedding it fuses has sequence length L and width prenet_channels.
C6_OutputShape ==
    (Called /\ Direct /\ last.x.shape[2] = cfg.in_channels)
        => /\ ValidConditioning => last.res.status = "ok"
           /\ last.res.status = "ok"
                => /\ last.res.out.shape
                        = <<last.x.shape[1], cfg.out_channels, last.x.shape[3]>>
                   /\ ShapeOf(last.res.code_emb)
                        = <<last.x.shape[1], last.x.shape[3], cfg.prenet_channels>>

C6_Witness ==
    /\ Called /\ Direct /\ last.res.status = "ok"
    /\ ~last.conditioning_free /\ IsNone(last.precomputed)
    /\ last.x.shape[1] = 2
    /\ last.codes.shape[2] = 3 /\ last.x.shape[3] = 2
    /\ cfg.out_channels # cfg.in_channels
    /\ last.res.out.shape = <<2, cfg.out_channels, 2>>

Multi == variant = "TransformerDiffusionWithMultiPretrainedVqvae"

\* C7: a reference whose channel count is not divisible by the number of
\* codecs makes forward fail.
C7_IndivisibleFails ==
    (Called /\ Multi /\ last.truth_mel.shape[2] % cfg.num_vaes # 0)
        => last.res.status # "ok"

Channels(band) == {band.channels[k] : k \in DOMAIN band.channels}

\* C8: with C divisible by N the reference is split into N contiguous,
\* disjoint bands of C/N channels covering every channel once; band i goes to
\* codec i, whose projection is the i-th slot of the concatenation.
C8_BandsInCodecOrder ==
    (Called /\ Multi /\ last.truth_mel.shape[2] % cfg.num_vaes = 0
       /\ last.res.bands # <<>>)
        => LET C == last.truth_mel.shape[2]
               N == cfg.num_vaes
               bands == last.res.bands
           IN  /\ Len(bands) = N
               /\ \A i \in 1..N :
                    /\ bands[i].codec = i
                    /\ Len(bands[i].channels) = C \div N
                    /\ \A k \in 1..(C \div N) :
                         bands[i].channels[k] = (i - 1) * (C \div N) + k
               /\ \A i, j \in 1..N :
                    i # j => Channels(bands[i]) \cap Channels(bands[j]) = {}
               /\ UNION {Channels(bands[i]) : i \in 1..N} = 1..C

C8_Witness ==
    /\ Called /\ Multi /\ last.res.status = "ok"
    /\ last.truth_mel.shape[2] = 4 /\ cfg.num_vaes = 2
    /\ last.res.bands[2].channels = <<3, 4>>

\* The batch elements of the code embedding that are wholly s.
Whole(e, b, s) ==
    \A i \in 1..Len(e[b]) : \A f \in 1..Len(e[b][i]) : e[b][i][f].src = s

\* C10: timestep_independent decides once for each batch element: every
\* position and feature of the element carries the unconditioned embedding,
\* or every one carries the element's own code embedding; replacement needs
\* training mode and unconditioned_percentage > 0.
C10_WholeElements ==
    (Called /\ ~last.conditioning_free /\ IsNone(last.precomputed)
       /\ last.res.status = "ok")
        => LET e == last.res.code_emb
           IN  /\ \A b \in 1..Len(e) :
                    \/ Whole(e, b, "uncond")
                    \/ /\ Whole(e, b, "code")
                       /\ \A i \in 1..Len(e[b]) : \A f \in 1..Len(e[b][i]) :
                            e[b][i][f].b = b /\ e[b][i][f].f = f
               /\ (~last.training \/ cfg.unconditioned_percentage = 0)
                    => \A b \in 1..Len(e) : Whole(e, b, "code")

C10_Witness ==
    /\ Called /\ ~last.conditioning_free /\ IsNone(last.precomputed)
    /\ last.res.status = "ok" /\ last.training
    /\ Len(last.res.code_emb) = 2 /\ last.x.shape[3] = 3
    /\ Whole(last.res.code_emb, 1, "uncond")
    /\ Whole(last.res.code_emb, 2, "code")

\* C9: before any parameter update ConcatAttentionBlock.forward is the
\* identity on the trunk: the result has the shape of x and is x itself,
\* the zero-initialized bias-free projection adding nothing to the residual.
C9_IdentityAtInit ==
    (block_last.op = "forward" /\ ~block_last.updated)
        => /\ block_last.res.status = "ok"
           /\ block_last.res.shape = block_last.x.shape
           /\ Len(block_last.res.features) = block_last.x.shape[3]
           /\ \A j \in 1..Len(block_last.res.features) :
                /\ block_last.res.features[j].residual
                     = [grp |-> block_last.x.id.name, k |-> j]
                /\ block_last.res.features[j].terms = {}

C9_Witness ==
    /\ block_last.op = "forward" /\ ~block_last.updated
    /\ block.trunk_dim = 2 /\ block.contraction_dim = 2
    /\ block_last.x.shape = <<2, 3, 2>>
    /\ Len(block_last.res.projected) = 8
    /\ block_last.res.status = "ok"

ARPrior == variant = "TransformerDiffusionWithARPrior"

\* C11: a TransformerDiffusionWithARPrior constructed with freeze_diff=True
\* trains exactly the parameters of diff.ar_input and diff.ar_prior_intg;
\* the parameters of ar and every other parameter of diff have
\* requires_grad false and carry DO_NOT_TRAIN.
C11_FreezeDiff ==
    (ARPrior /\ cfg.freeze_diff)
        => /\ Trainable(params) = {"ar_input", "ar_prior_intg"}
           /\ "ar" \in DOMAIN params
           /\ DiffParameters(cfg) \subseteq DOMAIN params
           /\ \A p \in DOMAIN params \ {"ar_input", "ar_prior_intg"} :
                ~params[p].requires_grad /\ params[p].DO_NOT_TRAIN
           /\ \A p \in {"ar_input", "ar_prior_intg"} :
                params[p].requires_grad /\ ~params[p].DO_NOT_TRAIN

C11_Witness ==
    /\ ARPrior /\ cfg.freeze_diff
    /\ params["ar_input"].requires_grad
    /\ ~params["layers"].requires_grad /\ params["layers"].DO_NOT_TRAIN
    /\ ~params["ar"].requires_grad
    /\ last.op = "get_grad_norm_parameter_groups"

\* C12: nearest-neighbour resampling to a fixed length is idempotent: the
\* code embedding forward fused, which was resampled to the length L of x,
\* is left as it is by resampling it to L again, the resampling of a
\* sequence to its own length reading position i at position i.
C12_ResampleIdempotent ==
    (Called /\ last.res.status = "ok")
        => LET L == last.x.shape[3]
           IN  /\ Interpolate(last.res.code_emb, L) = last.res.code_emb
               /\ \A i \in 1..L : NearestIndex(i, L, L) = i

C12_Witness ==
    /\ Called /\ Direct /\ last.res.status = "ok"
    /\ ~last.conditioning_free /\ IsNone(last.precomputed) /\ ~last.res.masked
    /\ last.codes.shape[2] = 2 /\ last.x.shape[3] = 3
    /\ last.res.code_emb[1][1] = last.res.code_emb[1][2]
    /\ last.res.code_emb[1][2] # last.res.code_emb[1][3]
    /\ Interpolate(last.res.code_emb, 3) = last.res.code_emb

\* C13: get_grad_norm_parameter_groups of every variant, however validly
\* constructed (ar_prior=True and the AR-prior wrapper included), returns
\* its groups: every attribute it reads exists on the constructed model.
C13_GroupsReturned ==
    last.op = "get_grad_norm_parameter_groups"
        => /\ last.res.status = "ok"
           /\ \A i \in 1..Len(GroupReads(variant)) :
                GroupReads(variant)[i] \in ModulePaths(variant, cfg)

\* The features the two sub-blocks compute: the attention and convolution
\* outputs of block1 and of block2.
NewFeatures(contraction_dim) ==
    {[grp |-> g, k |-> k] :
        g \in {"block1.attn", "block1.ff", "block2.attn", "block2.ff"},
        k \in 1..contraction_dim}

\* C14: what ConcatAttentionBlock.forward hands to out, h[:, :, trunk_dim:],
\* is the four groups of contraction_dim features the sub-blocks computed
\* and none of the normalized trunk features, whatever the two dimensions.
C14_SliceIsNewFeatures ==
    block_last.op = "forward"
        => LET projected == block_last.res.projected
           IN  /\ Len(projected) = 4 * block.contraction_dim
               /\ {projected[k] : k \in 1..Len(projected)}
                     = NewFeatures(block.contraction_dim)
               /\ \A k \in 1..Len(projected) : projected[k].grp # "prenorm"

\* C15: a TransformerDiffusion constructed with
\* freeze_except_code_converters=True trains exactly the parameters of
\* input_converter and code_converter; every other parameter has
\* requires_grad false and carries DO_NOT_TRAIN.
C15_ExceptCodeConverters ==
    (Direct /\ cfg.freeze_except_code_converters)
        => /\ Trainable(params) = {"input_converter", "code_converter"}
           /\ \A p \in DOMAIN params \ {"input_converter", "code_converter"} :
                ~params[p].requires_grad /\ params[p].DO_NOT_TRAIN

Quantizing == variant = "TransformerDiffusionWithQuantizer"

\* C16 as stated: in every reachable state of
\* TransformerDiffusionWithQuantizer, right after construction included,
\* the temperature is the schedule's value at the current internal_step,
\* max(max_temp * decay^max(0, internal_step - freeze_quantizer_until),
\* min_temp), hence between min_temp and max_temp.
C16_AlwaysOnSchedule ==
    Quantizing
        => /\ RatEq(temperature, StepTemperature(cfg, internal_step))
           /\ RatLeq(MinGumbelTemperature, temperature)
           /\ RatLeq(temperature, <<MaxGumbelTemperature, 1>>)

\* C16, amended: the constructor leaves the temperature at min_temp with
\* internal_step 0, off the schedule (whose value at 0 is max_temp); after
\* any sequence of update_for_step calls, in any order of steps, the
\* temperature is the schedule's value at the current internal_step; in
\* both cases it lies between min_temp and max_temp.
C16_OnScheduleOnceStepped ==
    Quantizing
        => /\ stepped => RatEq(temperature, StepTemperature(cfg, internal_step))
           /\ ~stepped => /\ internal_step = 0
                          /\ RatEq(temperature, MinGumbelTemperature)
                          /\ ~RatEq(temperature, StepTemperature(cfg, 0))
           /\ RatLeq(MinGumbelTemperature, temperature)
           /\ RatLeq(temperature, <<MaxGumbelTemperature, 1>>)

C16_Witness ==
    /\ Quantizing /\ stepped
    /\ internal_step = 1 /\ cfg.freeze_quantizer_until = 0
    /\ RatEq(temperature, <<2, 1>>)
    /\ last.op = "forward" /\ last.step = 1
====
